---- MODULE Spec2Model ----
(***************************************************************************)
(* Model of src/NewsApi/ApiCaller.py: the record builders (Authors,        *)
(* Sources), the article assembler (Articles), the response classifier     *)
(* (ApiResponse) and call_api.                                             *)
(*                                                                         *)
(* A decoded JSON value is a record [t, s, n, l, m]: t is the JSON type    *)
(* ("null", "str", "int", "list", "map"), s the characters of a string,    *)
(* n the value of an integer, l the elements of a list and m the mapping   *)
(* (a function from key names to values).  Strings are sequences of        *)
(* one-character strings, so that str.split and %-formatting are computed. *)
(* Python's None is the decoded JSON null.                                 *)
(***************************************************************************)
EXTENDS Integers, Sequences, FiniteSets, TLC

\* pc       where the caller is: "idle" (no call yet), "ready" (an operation is
\*          about to run on arg), "returned" or "raised"
\* op       the operation called: "add_author", "add_source" or "ApiResponse"
\* arg      the raw value handed to the operation
\* ret      the value returned (for ApiResponse, its metadata and articles)
\* raised   the exception that reached the caller, NoError if none
\* events   the records the operation sent to _LOGGER, in order
\* articles the list of the Articles instance constructed last
\* ncalls   the number of ApiResponse constructions so far
\* refDoc, refOut  the document of the first construction, made in the fresh
\*          state, and its outcome
VARIABLES pc, op, arg, ret, raised, events, articles, ncalls, refDoc, refOut

vars == <<pc, op, arg, ret, raised, events, articles, ncalls, refDoc, refOut>>

(***************************************************************************)
(* Bounds                                                                  *)
(***************************************************************************)
MaxArticles == 2
MaxCalls == 3

(***************************************************************************)
(* JSON values                                                             *)
(***************************************************************************)
EmptyMap == [k \in {} |-> 0]
JNull == [t |-> "null", s |-> <<>>, n |-> 0, l |-> <<>>, m |-> EmptyMap]
JStr(chars) == [t |-> "str", s |-> chars, n |-> 0, l |-> <<>>, m |-> EmptyMap]
JInt(i) == [t |-> "int", s |-> <<>>, n |-> i, l |-> <<>>, m |-> EmptyMap]
JList(elems) == [t |-> "list", s |-> <<>>, n |-> 0, l |-> elems, m |-> EmptyMap]
JMap(f) == [t |-> "map", s |-> <<>>, n |-> 0, l |-> <<>>, m |-> f]
NoneVal == JNull
Unset == [t |-> "unset", s |-> <<>>, n |-> 0, l |-> <<>>, m |-> EmptyMap]

\* bool(v) of a decoded JSON value
Truthy(v) ==
    CASE v.t = "null" -> FALSE
      [] v.t = "str"  -> v.s # <<>>
      [] v.t = "int"  -> v.n # 0
      [] v.t = "list" -> v.l # <<>>
      [] v.t = "map"  -> DOMAIN v.m # {}
      [] OTHER        -> TRUE

HasKeys(v, ks) == v.t = "map" /\ ks \subseteq DOMAIN v.m

Without(f, ks) == [k \in (DOMAIN f) \ ks |-> f[k]]

\* str.split(" "): cut at every single space, empty pieces are kept
RECURSIVE split(_)
split(chars) ==
    IF \A i \in 1..Len(chars) : chars[i] # " "
    THEN <<chars>>
    ELSE LET i == CHOOSE j \in 1..Len(chars) :
                     chars[j] = " " /\ \A k \in 1..(j - 1) : chars[k] # " "
         IN  <<SubSeq(chars, 1, i - 1)>> \o split(SubSeq(chars, i + 1, Len(chars)))

Digit(d) == <<"0", "1", "2", "3", "4", "5", "6", "7", "8", "9">>[d + 1]

RECURSIVE Decimal(_)
Decimal(i) == IF i < 10 THEN <<Digit(i)>> ELSE Decimal(i \div 10) \o <<Digit(i % 10)>>

\* '%s' % v for the scalar values an error document carries
PyStr(v) ==
    CASE v.t = "str"  -> v.s
      [] v.t = "int"  -> IF v.n < 0 THEN <<"-">> \o Decimal(0 - v.n) ELSE Decimal(v.n)
      [] v.t = "null" -> <<"N", "o", "n", "e">>
      [] OTHER        -> <<"?">>

(***************************************************************************)
(* Typed records and log events                                            *)
(***************************************************************************)
Author(firstName, lastName) == [firstName |-> firstName, lastName |-> lastName]
Source(id, name) == [id |-> id, name |-> name]
MetaData(totalResults) == [totalResults |-> totalResults]
ArticleFields == {"title", "description", "url", "urlToImage", "publishedAt", "content"}

\* the tuple (source, author, article) of an article record, by position
Record(source, author, article) == [source |-> source, author |-> author, article |-> article]

Event(level, msg, exc, a) == [level |-> level, msg |-> msg, exc |-> exc, arg |-> a]

\* the result of a call: the value returned, the exception that escaped ("" if
\* none) and the log events emitted on the way
Result(v, exc, evs) == [ret |-> v, exc |-> exc, events |-> evs]

(***************************************************************************)
(* Authors.add_author                                                      *)
(***************************************************************************)
add_author(author_name) ==
    IF Truthy(author_name)
    THEN IF author_name.t = "str"
         THEN LET parts == split(author_name.s)
              IN  IF Len(parts) = 2
                  THEN Result(Author(parts[1], parts[2]), "", <<>>)
                  ELSE Result(NoneVal, "",
                              <<Event("INFO", "Couldn't create author record",
                                      "_AuthorCreationError", author_name)>>)
         ELSE Result(NoneVal, "",
                     <<Event("WARNING", "Unhandled Exception",
                             "_AuthorCreationError", author_name)>>)
    ELSE Result(author_name, "", <<>>)

(***************************************************************************)
(* Sources.__make_source and Sources.add_source                            *)
(***************************************************************************)
make_source(source_raw) ==
    IF HasKeys(source_raw, {"id", "name"})
    THEN Result(Source(source_raw.m["id"], source_raw.m["name"]), "", <<>>)
    ELSE Result(NoneVal, "SourceError", <<>>)

add_source(source_info) ==
    LET made == make_source(source_info)
    IN  CASE made.exc = "" -> Result(made.ret, "", <<>>)
          [] made.exc \in {"TypeError", "SourceError"} ->
                Result(NoneVal, "",
                       <<Event("INFO", "Unable to create source",
                               "_SourceCreationError", source_info)>>)
          [] OTHER ->
                Result(NoneVal, "",
                       <<Event("WARNING", "Unhandled exception",
                               "_SourceCreationError", source_info)>>)

(***************************************************************************)
(* Article (keyword construction) and Articles.__make_article_record       *)
(***************************************************************************)
Article(article_data) ==
    IF DOMAIN article_data = ArticleFields
    THEN Result([f \in ArticleFields |-> article_data[f]], "", <<>>)
    ELSE Result(NoneVal, "TypeError", <<>>)

\* a copied log call: the unmatched fragment reported as a construction failure
UnpatternedEvent_asFailure(article_raw) ==
    Event("INFO", "Ran into an error creating article object", "_ArticleCreationError",
          article_raw)

UnpatternedEvent(article_raw) ==
    Event("INFO", "Unpatterned article", "_ArticleCreationError", article_raw)

\* the unmatched fragment raises, as the docstring announces, instead of being logged
UnpatternedCase_raises(article_raw) == Result(NoneVal, "_ArticleCreationError", <<>>)

\* case _: log and fall through to "return None"
UnpatternedCase(article_raw) == Result(NoneVal, "", <<UnpatternedEvent(article_raw)>>)

make_article_record(article_raw) ==
    IF /\ HasKeys(article_raw, {"source", "author"})
       /\ article_raw.m["source"].t = "map"
    THEN LET source_raw   == article_raw.m["source"]
             author_raw   == article_raw.m["author"]
             article_data == Without(article_raw.m, {"source", "author"})
             src == add_source(source_raw)
             aut == add_author(author_raw)
             art == Article(article_data)
             exc == IF src.exc # "" THEN src.exc
                    ELSE IF aut.exc # "" THEN aut.exc ELSE art.exc
             evs == IF src.exc # "" THEN src.events ELSE src.events \o aut.events
         IN  CASE exc = "" -> Result(Record(src.ret, aut.ret, art.ret), "", evs)
               [] exc = "TypeError" ->
                     Result(NoneVal, "",
                            evs \o <<Event("INFO", "Ran into an error creating article object",
                                           "_ArticleCreationError", JMap(article_data))>>)
               [] OTHER ->
                     Result(NoneVal, "",
                            evs \o <<Event("WARNING", "Unhandled exception",
                                           "_RecordCreationError", article_raw)>>)
    ELSE UnpatternedCase(article_raw)

(***************************************************************************)
(* Articles.__init__                                                       *)
(***************************************************************************)
\* a list shared by all instances: each starts from what the last one left
NewList_shared == articles

\* line 91: the instance starts from a list of its own
NewList == <<>>

\* line 92: the generator's condition "if not None"
GeneratorFilter(article_raw) == ~Truthy(NoneVal)

RECURSIVE extend(_, _)
extend(acc, raws) ==
    IF raws = <<>> \/ acc.exc # ""
    THEN acc
    ELSE IF GeneratorFilter(Head(raws))
         THEN LET r == make_article_record(Head(raws))
              IN  extend(Result(IF r.exc = "" THEN Append(acc.ret, r.ret) ELSE acc.ret,
                                r.exc, acc.events \o r.events),
                         Tail(raws))
         ELSE extend(acc, Tail(raws))

Articles_init(raws) == extend(Result(NewList, "", <<>>), raws)

(***************************************************************************)
(* ApiResponse.__match_response                                            *)
(***************************************************************************)
sOk == <<"o", "k">>
sError == <<"e", "r", "r", "o", "r">>
ErrorPrefix == <<"E", "r", "r", "o", "r", " ", "C", "o", "d", "e", ":", " ">>
MessagePrefix == <<"\n", "M", "e", "s", "s", "a", "g", "e", ":", " ">>
UnpatternedPrefix == <<"N", "o", "t", " ", "y", "e", "t", " ", "p", "a", "t", "t", "e", "r",
                       "n", "e", "d", " ", "r", "e", "s", "p", "o", "n", "s", "e", ":", " ">>

NoError == [type |-> "", msg |-> <<>>, payload |-> JNull]
ResponseError(msg, payload) == [type |-> "ResponseError", msg |-> msg, payload |-> payload]

\* the message left out of the format
ErrorMessage_codeOnly(code, message) == ErrorPrefix \o PyStr(code) \o MessagePrefix

\* 'Error Code: %s\nMessage: %s' % (code, message)
ErrorMessage(code, message) == ErrorPrefix \o PyStr(code) \o MessagePrefix \o PyStr(message)

MatchesOk(response_obj) ==
    /\ HasKeys(response_obj, {"status", "totalResults", "articles"})
    /\ response_obj.m["status"] = JStr(sOk)
    /\ response_obj.m["articles"].t = "list"

MatchesError(response_obj) ==
    /\ HasKeys(response_obj, {"status", "code", "message"})
    /\ response_obj.m["status"] = JStr(sError)

\* the outcome: the (metadata, articles) pair or the ResponseError raised; the
\* error of an unmatched document keeps the document as payload beside the
\* prefix of its text
match_response(response_obj) ==
    CASE MatchesOk(response_obj) ->
            LET arts == Articles_init(response_obj.m["articles"].l)
            IN  [ret |-> [metadata |-> MetaData(response_obj.m["totalResults"]),
                          articles |-> arts.ret],
                 raised |-> IF arts.exc = "" THEN NoError
                            ELSE [type |-> arts.exc, msg |-> <<>>, payload |-> JNull],
                 events |-> arts.events]
      [] ~MatchesOk(response_obj) /\ MatchesError(response_obj) ->
            [ret |-> Unset,
             raised |-> ResponseError(ErrorMessage(response_obj.m["code"],
                                                   response_obj.m["message"]), JNull),
             events |-> <<>>]
      [] OTHER ->
            [ret |-> Unset,
             raised |-> ResponseError(UnpatternedPrefix, response_obj),
             events |-> <<>>]

(***************************************************************************)
(* Inputs                                                                  *)
(***************************************************************************)
sJD == <<"J", " ", "D">>
sDate == <<"2", "0", "2", "4", "-", "0", "1", "-", "0", "1">>

AuthorPool ==
    { JNull, JStr(<<>>), JStr(sJD), JStr(<<"J">>), JStr(<<"J", " ", "M", " ", "D">>),
      JStr(<<" ", "J">>), JStr(<<"J", " ">>), JStr(<<" ">>), JStr(<<"J", " ", " ", "D">>),
      JStr(<<"J", "\t", "D">>), JInt(0), JInt(5), JList(<<>>), JList(<<JStr(<<"J">>)>>),
      JMap(EmptyMap), JMap("a" :> JStr(sJD)) }

SrcFull == JMap(("id" :> JStr(<<"c">>)) @@ ("name" :> JStr(<<"C">>)))

SourcePool ==
    { JNull, JStr(<<"c">>), JList(<<>>), JMap(EmptyMap), SrcFull,
      JMap(("id" :> JNull) @@ ("name" :> JStr(<<"C">>))),
      JMap("name" :> JStr(<<"C">>)),
      JMap("id" :> JStr(<<"c">>)),
      JMap(("id" :> JInt(1)) @@ ("name" :> JInt(2))),
      JMap(("id" :> JStr(<<"c">>)) @@ ("name" :> JNull)),
      JMap(("id" :> JStr(<<"c">>)) @@ ("name" :> JStr(<<"C">>)) @@ ("x" :> JInt(1))) }

ArticleData ==
    [f \in ArticleFields |-> IF f = "publishedAt" THEN JStr(sDate) ELSE JStr(<<"t">>)]

Fragment(source, author, data) == JMap(("source" :> source) @@ ("author" :> author) @@ data)

FragOk == Fragment(SrcFull, JStr(sJD), ArticleData)

FragmentPool ==
    { FragOk,
      Fragment(JNull, JStr(sJD), ArticleData),
      Fragment(JMap("id" :> JStr(<<"c">>)), JStr(sJD), ArticleData),
      JMap(("source" :> SrcFull) @@ ArticleData),
      Fragment(SrcFull, JStr(<<>>), ArticleData),
      Fragment(SrcFull, JNull, ArticleData),
      Fragment(SrcFull, JStr(<<"J">>), ArticleData),
      Fragment(SrcFull, JInt(5), ArticleData),
      Fragment(JList(<<>>), JStr(sJD), ArticleData),
      Fragment(SrcFull, JStr(sJD), Without(ArticleData, {"content"})),
      Fragment(SrcFull, JStr(sJD), ArticleData @@ ("extra" :> JStr(<<"x">>))),
      Fragment(SrcFull, JStr(sJD), ("title" :> JInt(5)) @@ ArticleData),
      Fragment(SrcFull, JStr(sJD), ("publishedAt" :> JStr(<<"x">>)) @@ ArticleData),
      JStr(<<"x">>) }

\* the article fragments of the runs that make several calls
FragmentPool9 == { FragOk, Fragment(SrcFull, JStr(sJD), Without(ArticleData, {"content"})),
                   JStr(<<"x">>) }

RECURSIVE SeqsUpTo(_, _)
SeqsUpTo(S, n) ==
    IF n = 0 THEN {<<>>}
    ELSE LET shorter == SeqsUpTo(S, n - 1)
         IN  shorter \cup {Append(q, x) : q \in shorter, x \in S}

OkDoc(total, arts) ==
    JMap(("status" :> JStr(sOk)) @@ ("totalResults" :> total) @@ ("articles" :> arts))

ErrorDoc(code, message) ==
    JMap(("status" :> JStr(sError)) @@ ("code" :> code) @@ ("message" :> message))

sBad == <<"b", "a", "d", " ", "k", "e", "y">>

OtherDocs ==
    { ErrorDoc(JInt(426), JStr(sBad)), ErrorDoc(JStr(<<"k", "1">>), JStr(sBad)),
      ErrorDoc(JNull, JStr(<<>>)), ErrorDoc(JInt(7), JInt(0)),
      JMap(("status" :> JStr(sError)) @@ ("code" :> JInt(426))),
      JMap(("status" :> JStr(sError)) @@ ("message" :> JStr(sBad))),
      JMap(("totalResults" :> JInt(1)) @@ ("articles" :> JList(<<>>))
           @@ ("status" :> JStr(sError)) @@ ("code" :> JInt(1)) @@ ("message" :> JStr(sBad))),
      JMap(("code" :> JInt(1)) @@ ("message" :> JStr(sBad))
           @@ ("status" :> JStr(sOk)) @@ ("totalResults" :> JInt(1)) @@ ("articles" :> JList(<<FragOk>>))),
      OkDoc(JInt(1), JNull), OkDoc(JInt(1), JMap(EmptyMap)), OkDoc(JInt(1), JStr(<<"a">>)),
      JMap(("status" :> JStr(sOk)) @@ ("articles" :> JList(<<>>))),
      JMap(("status" :> JStr(sOk)) @@ ("totalResults" :> JInt(1))),
      JMap(("status" :> JStr(<<"o">>)) @@ ("totalResults" :> JInt(1)) @@ ("articles" :> JList(<<>>))),
      JMap(("status" :> JInt(1)) @@ ("totalResults" :> JInt(1)) @@ ("articles" :> JList(<<>>))),
      JMap(EmptyMap), JNull, JList(<<>>), JStr(sOk), JInt(0) }

TotalPool == { JInt(37), JInt(0), JStr(<<"3", "7">>), JNull }

DocPool ==
    { OkDoc(total, JList(arts)) : total \in TotalPool, arts \in SeqsUpTo(FragmentPool, MaxArticles) }
    \cup OtherDocs

DocPool9 ==
    { OkDoc(JInt(37), JList(arts)) : arts \in SeqsUpTo(FragmentPool9, MaxArticles) }
    \cup { ErrorDoc(JInt(426), JStr(sBad)), JNull }

(***************************************************************************)
(* State machine                                                           *)
(***************************************************************************)
Outcome == [pc |-> pc, ret |-> ret, raised |-> raised]

Fresh ==
    /\ ret = Unset
    /\ raised = NoError
    /\ events = <<>>
    /\ articles = <<>>
    /\ ncalls = 0
    /\ refDoc = Unset
    /\ refOut = [pc |-> "idle", ret |-> Unset, raised |-> NoError]

\* one call of one public operation on an input drawn from the pools
Init ==
    /\ pc = "ready"
    /\ \/ op = "add_author" /\ arg \in AuthorPool
       \/ op = "add_source" /\ arg \in SourcePool
       \/ op = "ApiResponse" /\ arg \in DocPool
    /\ Fresh

\* a caller that has not called yet
Init9 ==
    /\ pc = "idle"
    /\ op = "ApiResponse"
    /\ arg = Unset
    /\ Fresh

Do_add_author ==
    /\ pc = "ready" /\ op = "add_author"
    /\ LET r == add_author(arg)
       IN  /\ ret' = r.ret
           /\ events' = r.events
    /\ pc' = "returned"
    /\ UNCHANGED <<op, arg, raised, articles, ncalls, refDoc, refOut>>

Do_add_source ==
    /\ pc = "ready" /\ op = "add_source"
    /\ LET r == add_source(arg)
       IN  /\ ret' = r.ret
           /\ events' = r.events
    /\ pc' = "returned"
    /\ UNCHANGED <<op, arg, raised, articles, ncalls, refDoc, refOut>>

\* ApiResponse(response): __init__ binds metadata and articles, or the
\* ResponseError escapes and nothing is bound
Construct(response) ==
    LET out == match_response(response)
        npc == IF out.raised = NoError THEN "returned" ELSE "raised"
    IN  /\ pc' = npc
        /\ ret' = out.ret
        /\ raised' = out.raised
        /\ events' = out.events
        /\ articles' = IF out.raised = NoError THEN out.ret.articles ELSE articles
        /\ ncalls' = ncalls + 1
        /\ IF ncalls = 0
           THEN /\ refDoc' = response
                /\ refOut' = [pc |-> npc, ret |-> out.ret, raised |-> out.raised]
           ELSE UNCHANGED <<refDoc, refOut>>

ApiResponse_init ==
    /\ pc = "ready" /\ op = "ApiResponse"
    /\ Construct(arg)
    /\ UNCHANGED <<op, arg>>

\* call_api(url): the transport hands back some decoded document, which is
\* passed to ApiResponse
call_api ==
    /\ pc # "ready" /\ op = "ApiResponse"
    /\ ncalls < MaxCalls
    /\ \E doc \in DocPool9 :
          /\ arg' = doc
          /\ Construct(doc)
    /\ UNCHANGED op

Next == Do_add_author \/ Do_add_source \/ ApiResponse_init

Spec == Init /\ [][Next]_vars

Next9 == call_api

Spec9 == Init9 /\ [][Next9]_vars

(***************************************************************************)
(* Vocabulary of the properties                                            *)
(***************************************************************************)
IsNone(v) == v = NoneVal
IsAuthor(v) == DOMAIN v = {"firstName", "lastName"}
IsSource(v) == DOMAIN v = {"id", "name"}

ResponseDone == op = "ApiResponse" /\ pc \in {"returned", "raised"}

\* the shape the specification calls a success response
SuccessShape(doc) ==
    /\ doc.t = "map"
    /\ {"status", "totalResults", "articles"} \subseteq DOMAIN doc.m
    /\ doc.m["status"].t = "str" /\ doc.m["status"].s = sOk
    /\ doc.m["totalResults"].t = "int"
    /\ doc.m["articles"].t = "list"

\* the shape the specification calls a reported error
ErrorShape(doc) ==
    /\ doc.t = "map"
    /\ {"status", "code", "message"} \subseteq DOMAIN doc.m
    /\ doc.m["status"].t = "str" /\ doc.m["status"].s = sError

\* the articles array of the document being parsed (empty when there is none)
InputArticles ==
    IF arg.t = "map" /\ "articles" \in DOMAIN arg.m THEN arg.m["articles"].l ELSE <<>>

Contains(hay, needle) ==
    \E i \in 0..(Len(hay) - Len(needle)) : SubSeq(hay, i + 1, i + Len(needle)) = needle

IsDigit(c) == c \in {"0", "1", "2", "3", "4", "5", "6", "7", "8", "9"}

\* a date of the form YYYY-MM-DD, the timestamp text of the inputs
DateShape(chars) ==
    /\ Len(chars) = 10
    /\ \A i \in 1..10 : IF i \in {5, 8} THEN chars[i] = "-" ELSE IsDigit(chars[i])

\* the six Article fields are all present, with no other key besides source
\* and author, and each has the type the wire shape gives it
ValidSix(frag) ==
    /\ frag.t = "map"
    /\ (DOMAIN frag.m) \ {"source", "author"} = ArticleFields
    /\ \A f \in ArticleFields \ {"publishedAt"} : frag.m[f].t = "str"
    /\ frag.m["publishedAt"].t = "str" /\ DateShape(frag.m["publishedAt"].s)

IsWhitespace(c) == c \in {" ", "\t", "\n"}

\* the non-empty whitespace-delimited tokens of a string
RECURSIVE Tokens(_)
Tokens(chars) ==
    IF chars = <<>> THEN <<>>
    ELSE IF IsWhitespace(Head(chars)) THEN Tokens(Tail(chars))
    ELSE LET n == CHOOSE k \in 1..Len(chars) :
                     /\ \A j \in 1..k : ~IsWhitespace(chars[j])
                     /\ k = Len(chars) \/ IsWhitespace(chars[k + 1])
         IN  <<SubSeq(chars, 1, n)>> \o Tokens(SubSeq(chars, n + 1, Len(chars)))

CountWhere(q, P(_)) == Cardinality({i \in 1..Len(q) : P(q[i])})

IsRecord(v) == ~IsNone(v)

\* the classification a log event gives to a dropped fragment ("" for the
\* events of the author and source builders)
DropTag(e) ==
    CASE e.msg = "Unpatterned article" -> "unrecognized"
      [] e.msg = "Ran into an error creating article object" -> "failed"
      [] e.msg = "Unhandled exception" /\ e.exc = "_RecordCreationError" -> "unhandled"
      [] OTHER -> ""

IsTag(tag) == tag # ""

\* the tags of a sequence, in order, the untagged elements left out
TagsBy(q, Tag(_)) == SelectSeq([i \in 1..Len(q) |-> Tag(q[i])], IsTag)

DropTags(evs) == TagsBy(evs, DropTag)

IsDropEvent(e) == DropTag(e) # ""

(***************************************************************************)
(* C1                                                                      *)
(***************************************************************************)
RECURSIVE KeptRecords(_)
KeptRecords(raws) ==
    IF raws = <<>> THEN <<>>
    ELSE LET r == make_article_record(Head(raws)).ret
         IN  (IF IsNone(r) THEN <<>> ELSE <<r>>) \o KeptRecords(Tail(raws))

\* C1: after a success response is parsed, the record sequence is exactly the
\* records of the fragments that were not dropped, in input order, with no
\* absent entry standing in for a dropped fragment (so its length is
\* len(articles) minus the number of dropped fragments).
C1_Subsequence ==
    (ResponseDone /\ pc = "returned") =>
        /\ \A i \in 1..Len(ret.articles) : ~IsNone(ret.articles[i])
        /\ ret.articles = KeptRecords(InputArticles)

(***************************************************************************)
(* C2                                                                      *)
(***************************************************************************)
\* C2: a result is returned if and only if the document is a mapping with
\* status "ok", an integer totalResults and a list articles; every other
\* document raises ResponseError and yields no result.
C2_Classification ==
    ResponseDone =>
        /\ pc = "returned" <=> SuccessShape(arg)
        /\ pc = "raised" => (raised.type = "ResponseError" /\ ret = Unset)

(***************************************************************************)
(* C3                                                                      *)
(***************************************************************************)
\* C3: a document with status "error", a code and a message always fails with
\* a ResponseError whose text contains the code and the message, and no
\* metadata or record list is produced.
C3_ErrorSurfaced ==
    (ResponseDone /\ ErrorShape(arg)) =>
        /\ pc = "raised"
        /\ raised.type = "ResponseError"
        /\ Contains(raised.msg, PyStr(arg.m["code"]))
        /\ Contains(raised.msg, PyStr(arg.m["message"]))
        /\ ret = Unset
        /\ articles = <<>>

C3_Witness ==
    /\ ResponseDone /\ pc = "raised"
    /\ arg = ErrorDoc(JInt(426), JStr(sBad))
    /\ Contains(raised.msg, <<"4", "2", "6">>)
    /\ Contains(raised.msg, sBad)

C5_BestEffort ==
    (ResponseDone /\ pc = "returned") =>
        /\ CountWhere(ret.articles, IsRecord) >= CountWhere(InputArticles, ValidSix)
        /\ \A i \in 1..Len(ret.articles) :
              IsRecord(ret.articles[i]) =>
                  /\ IsSource(ret.articles[i].source) \/ IsNone(ret.articles[i].source)
                  /\ IsAuthor(ret.articles[i].author) \/ IsNone(ret.articles[i].author)

(***************************************************************************)
(* C6                                                                      *)
(***************************************************************************)
\* C6: add_author returns either absent or an Author with two non-empty
\* components, and an Author only for a string with exactly two non-empty
\* whitespace-delimited tokens, which are its components.
C6_AuthorShape ==
    (op = "add_author" /\ pc = "returned") =>
        /\ IsNone(ret) \/ (IsAuthor(ret) /\ ret.firstName # <<>> /\ ret.lastName # <<>>)
        /\ IsAuthor(ret) =>
              /\ arg.t = "str"
              /\ Len(Tokens(arg.s)) = 2
              /\ ret = Author(Tokens(arg.s)[1], Tokens(arg.s)[2])

(***************************************************************************)
(* C7                                                                      *)
(***************************************************************************)
\* C7: add_source returns a Source only for a mapping with an id that is a
\* string or null and a name that is a string; for every other input it
\* returns absent and emits one failure event.
C7_SourceShape ==
    (op = "add_source" /\ pc = "returned") =>
        LET wellFormed == /\ arg.t = "map"
                          /\ {"id", "name"} \subseteq DOMAIN arg.m
                          /\ arg.m["id"].t \in {"str", "null"}
                          /\ arg.m["name"].t = "str"
        IN  /\ IsSource(ret) => (wellFormed /\ ret.name.t = "str")
            /\ ~wellFormed => (IsNone(ret) /\ Len(events) = 1)

(***************************************************************************)
(* C8                                                                      *)
(***************************************************************************)
\* C8: only fragments whose six Article fields are present and well typed
\* yield a record, and every Article in the result has five string fields and
\* a parsed timestamp.
C8_StrictArticle ==
    (ResponseDone /\ pc = "returned") =>
        /\ CountWhere(ret.articles, IsRecord) <= CountWhere(InputArticles, ValidSix)
        /\ \A i \in 1..Len(ret.articles) :
              IsRecord(ret.articles[i]) =>
                  /\ DOMAIN ret.articles[i].article = ArticleFields
                  /\ \A f \in ArticleFields \ {"publishedAt"} :
                        ret.articles[i].article[f].t = "str"
                  /\ ret.articles[i].article["publishedAt"].t = "datetime"

ClaimedMatch(frag) ==
    /\ frag.t = "map"
    /\ {"source", "author"} \subseteq DOMAIN frag.m
    /\ frag.m["source"].t = "map"
    /\ (DOMAIN frag.m) \ {"source", "author"} = ArticleFields

\* the structural match that decides the event: source sub-mapping and author
SourceAuthorMatch(frag) ==
    /\ frag.t = "map"
    /\ {"source", "author"} \subseteq DOMAIN frag.m
    /\ frag.m["source"].t = "map"

ClaimedTag(frag) ==
    IF ~ClaimedMatch(frag) THEN "unrecognized"
    ELSE IF ~ValidSix(frag) THEN "failed" ELSE ""

AmendedTag(frag) ==
    IF ~SourceAuthorMatch(frag) THEN "unrecognized"
    ELSE IF (DOMAIN frag.m) \ {"source", "author"} # ArticleFields THEN "failed" ELSE ""

\* C10 as stated: a fragment that is not a mapping, has no source sub-mapping
\* or has extra or missing top-level keys gets the "unrecognized shape" event,
\* and the construction-failure event goes only to structurally matching
\* fragments whose Article cannot be built; one event per dropped fragment.
C10_Original ==
    (ResponseDone /\ pc = "returned") =>
        DropTags(events) = TagsBy(InputArticles, ClaimedTag)

\* C10, amended: a fragment that is not a mapping, has no source sub-mapping
\* or has no author key gets the "unrecognized shape" event; a fragment with
\* both whose remaining keys are not exactly the six Article fields gets the
\* construction-failure event; each dropped fragment gets exactly one of the
\* two and a kept fragment none.
C10_Amended ==
    (ResponseDone /\ pc = "returned") =>
        /\ DropTags(events) = TagsBy(InputArticles, AmendedTag)
        /\ Len(DropTags(events)) = Len(InputArticles) - Len(KeptRecords(InputArticles))

C10_Witness ==
    /\ ResponseDone /\ pc = "returned"
    /\ DropTags(events) = <<"failed", "unrecognized">>
    /\ \E i \in 1..Len(InputArticles) :
          SourceAuthorMatch(InputArticles[i]) /\ ~ClaimedMatch(InputArticles[i])

====
